---- MODULE Spec2Model ----
(***************************************************************************)
(* Model of lampod/src/actions/handler.rs: the LampoHandler dispatcher.     *)
(*                                                                         *)
(*   - add_external_handler / react : the external handler chain           *)
(*   - handle                       : the reactor for ldk events           *)
(*                                                                         *)
(* Collaborators (chain backend, wallet, ldk channel manager, external     *)
(* handlers) are the environment: what they return is chosen with \E, and  *)
(* every call made to them and every domain event emitted is appended to   *)
(* the history variable `trace`.                                           *)
(***************************************************************************)
EXTENDS Integers, Sequences, FiniteSets, TLC

VARIABLES
    external_handlers,  \* LampoHandler.external_handlers: Vec<Arc<dyn ExternalHandler>>
    lastReact,          \* observation of the most recent react() call
    tasks,              \* one entry per handle() invocation, in delivery order
    trace,              \* emissions and collaborator calls/returns, in program order
    iter,               \* the react() call in progress: its borrow of external_handlers and its iterator
    lastAdd,            \* outcome of the most recent add_external_handler() call
    subs                \* the receivers handed out by events(), with what each has received

vars == <<external_handlers, lastReact, tasks, trace, iter, lastAdd, subs>>

(***************************************************************************)
(* Bounds                                                                  *)
(***************************************************************************)
MaxHandlers == 2    \* longest handler chain explored
MaxTasks == 2       \* number of ldk events delivered to handle()
MaxSubscribers == 2 \* number of receivers obtained from events()

(***************************************************************************)
(* Option<T>: None is the empty sequence, Some(x) the one-element sequence *)
(***************************************************************************)
None == <<>>

Some(x) == <<x>>

IsSome(o) == Len(o) = 1

\* Display::to_string of an identifier
DisplayString(x) == <<"str", x>>

\* Option::map(|x| x.to_string())
OptionToString(o) == [i \in DOMAIN o |-> DisplayString(o[i])]

(***************************************************************************)
(* External handler chain                                                  *)
(***************************************************************************)
Methods == {"getinfo", "unknown"}

\* An external handler is opaque: for each method it declines, responds or fails.
HandlerObjs == [Methods -> {"decline", "respond", "fail"}]

Requests == [method : Methods]

\* handler.handle(&req) : error::Result<Option<json::Value>>
ExternalHandle(h, req) ==
    CASE h[req.method] = "respond" ->
            [tag |-> "Ok", opt |-> Some([from |-> h, method |-> req.method])]
      [] h[req.method] = "decline" ->
            [tag |-> "Ok", opt |-> None]
      [] h[req.method] = "fail" ->
            [tag |-> "Err", err |-> <<"handler failure", req.method>>]

\* error::bail!("method `{}` not found", req.method)
MethodNotFoundAnonymous(method) == <<"method ", "?", " not found">>

MethodNotFound(method) == <<"method ", method, " not found">>

\* One iteration of the loop body: `if let Some(resp) = handler.handle(&req)? { return Ok(resp); }`
\* stop = TRUE when the function returns from inside the loop.
ReactStepNoReturn(h, req) ==
    LET r == ExternalHandle(h, req) IN
    IF r.tag = "Err" THEN [stop |-> TRUE, result |-> [tag |-> "Err", err |-> r.err]]
    ELSE [stop |-> FALSE, result |-> [tag |-> "Continue"]]

ReactStepSwallowError(h, req) ==
    LET r == ExternalHandle(h, req) IN
    IF r.tag = "Ok" /\ IsSome(r.opt)
    THEN [stop |-> TRUE, result |-> [tag |-> "Ok", value |-> r.opt[1]]]
    ELSE [stop |-> FALSE, result |-> [tag |-> "Continue"]]

ReactStep(h, req) ==
    LET r == ExternalHandle(h, req) IN
    IF r.tag = "Err" THEN [stop |-> TRUE, result |-> [tag |-> "Err", err |-> r.err]]
    ELSE IF IsSome(r.opt) THEN [stop |-> TRUE, result |-> [tag |-> "Ok", value |-> r.opt[1]]]
    ELSE [stop |-> FALSE, result |-> [tag |-> "Continue"]]

\* `for handler in handler.iter() { ... } bail!(...)`, from position i on;
\* seen is the list of positions consulted so far.
RECURSIVE ReactLoop(_, _, _, _)
ReactLoop(hs, req, i, seen) ==
    IF i > Len(hs)
    THEN [consulted |-> seen, result |-> [tag |-> "Err", err |-> MethodNotFound(req.method)]]
    ELSE LET s == ReactStep(hs[i], req) IN
         IF s.stop
         THEN [consulted |-> Append(seen, i), result |-> s.result]
         ELSE ReactLoop(hs, req, i + 1, Append(seen, i))

NoReact == [called |-> FALSE, handlers |-> <<>>, req |-> [method |-> "getinfo"],
            consulted |-> <<>>, result |-> [tag |-> "None"]]

\* no react() is running: the RefCell is not borrowed
Idle == [active |-> FALSE, req |-> [method |-> "getinfo"], next |-> 1, len |-> 0,
         seen |-> <<>>]

\* add_external_handler while no react() holds the borrow: borrow_mut, push, Ok(())
AddExternalHandler(h) ==
    /\ ~iter.active
    /\ Len(external_handlers) < MaxHandlers
    /\ external_handlers' = Append(external_handlers, h)
    /\ lastAdd' = [tag |-> "Ok"]
    /\ UNCHANGED <<lastReact, tasks, trace, iter, subs>>

\* react(Command::ExternalCommand(req)) run without interference;
\* the body has no suspension point.
React(req) ==
    /\ ~iter.active
    /\ LET r == ReactLoop(external_handlers, req, 1, <<>>) IN
       lastReact' = [called |-> TRUE, handlers |-> external_handlers, req |-> req,
                     consulted |-> r.consulted, result |-> r.result]
    /\ UNCHANGED <<external_handlers, tasks, trace, iter, lastAdd, subs>>

\* react() seen step by step, for what can happen while it iterates.
\* `let handler = self.external_handlers.borrow()` and `handler.iter()`:
\* the RefCell is borrowed and the iterator covers the handlers present now.
ReactBegin(req) ==
    /\ ~iter.active
    /\ iter' = [active |-> TRUE, req |-> req, next |-> 1,
                len |-> Len(external_handlers), seen |-> <<>>]
    /\ UNCHANGED <<external_handlers, lastReact, tasks, trace, lastAdd, subs>>

\* react() returns or unwinds: the borrow is released
ReactEnd(seen, result) ==
    /\ lastReact' = [called |-> TRUE, handlers |-> SubSeq(external_handlers, 1, iter.len),
                     req |-> iter.req, consulted |-> seen, result |-> result]
    /\ iter' = Idle

\* one turn of the loop of the react() in progress, or the bail! after it
ReactConsult ==
    /\ iter.active
    /\ IF iter.next > iter.len
       THEN ReactEnd(iter.seen, [tag |-> "Err", err |-> MethodNotFound(iter.req.method)])
       ELSE LET st == ReactStep(external_handlers[iter.next], iter.req) IN
            IF st.stop
            THEN ReactEnd(Append(iter.seen, iter.next), st.result)
            ELSE /\ iter' = [iter EXCEPT !.next = @ + 1, !.seen = Append(@, iter.next)]
                 /\ UNCHANGED lastReact
    /\ UNCHANGED <<external_handlers, tasks, trace, lastAdd, subs>>

\* add_external_handler called by the handler that react() is consulting:
\* borrow_mut() finds the RefCell borrowed and panics, and the panic unwinds
\* through handler.handle() and react()
AddExternalHandlerFromHandler(h) ==
    /\ iter.active
    /\ iter.next <= iter.len
    /\ lastAdd' = [tag |-> "Panic"]
    /\ ReactEnd(Append(iter.seen, iter.next), [tag |-> "Panic"])
    /\ UNCHANGED <<external_handlers, tasks, trace, subs>>

\* add_external_handler called on another thread while react() iterates
\* (LampoHandler is declared Sync, RefCell is not): borrow_mut() either sees
\* the borrow flag and panics, or races with it and pushes
AddExternalHandlerFromThread(h, sawBorrow) ==
    /\ iter.active
    /\ Len(external_handlers) < MaxHandlers
    /\ IF sawBorrow
       THEN /\ lastAdd' = [tag |-> "Panic"]
            /\ UNCHANGED external_handlers
       ELSE /\ lastAdd' = [tag |-> "Ok"]
            /\ external_handlers' = Append(external_handlers, h)
    /\ UNCHANGED <<lastReact, tasks, trace, iter, subs>>

(***************************************************************************)
(* ldk events delivered to handle()                                        *)
(***************************************************************************)
TempChannelIds == {"tmp1", "tmp2"}

NodeIds == {"node1"}

ChannelValues == {100000}

Scripts == {"S"}

Preimages == {"p1", "p2"}

OptionOf(S) == {None} \cup {Some(x) : x \in S}

\* ldk::events::PaymentPurpose: the preimage is optional except for spontaneous payments
PaymentPurposes ==
    [kind : {"Bolt11InvoicePayment", "Bolt12OfferPayment", "Bolt12RefundPayment"},
     payment_preimage : OptionOf(Preimages)]
    \cup [kind : {"SpontaneousPayment"}, preimage : Preimages]

FundingGenerationReadyEvents ==
    [type : {"FundingGenerationReady"}, temporary_channel_id : TempChannelIds,
     counterparty_node_id : NodeIds, channel_value_satoshis : ChannelValues,
     output_script : Scripts]

PaymentClaimableEvents == [type : {"PaymentClaimable"}, purpose : PaymentPurposes]

\* the arm reads nothing of the purpose: one preimage value is enough here
PaymentClaimedEvents ==
    [type : {"PaymentClaimed"},
     purpose : [kind : {"Bolt11InvoicePayment", "Bolt12OfferPayment", "Bolt12RefundPayment"},
                payment_preimage : OptionOf({"p1"})]
               \cup [kind : {"SpontaneousPayment"}, preimage : {"p1"}]]

OpenChannelRequestEvents ==
    [type : {"OpenChannelRequest"}, temporary_channel_id : {"tmp1"},
     counterparty_node_id : NodeIds]

ChannelReadyEvents ==
    [type : {"ChannelReady"}, channel_id : {"chan1"}, counterparty_node_id : NodeIds,
     channel_type : {"anchors"}]

ChannelClosedEvents ==
    [type : {"ChannelClosed"}, channel_id : {"chan1"}, reason : {"CooperativeClosure"},
     counterparty_node_id : OptionOf(NodeIds), channel_funding_txo : OptionOf({"txo1"})]

ChannelPendingEvents ==
    [type : {"ChannelPending"}, counterparty_node_id : NodeIds, funding_txo : {"txo1"}]

PendingHTLCsForwardableEvents == [type : {"PendingHTLCsForwardable"}]

PaymentSentEvents == [type : {"PaymentSent"}, payment_hash : {"hash1"}]

PaymentPathSuccessfulEvents ==
    [type : {"PaymentPathSuccessful"}, payment_hash : OptionOf({"hash1"}),
     path : {<<"hop1", "hop2">>}]

\* variants of ldk::events::Event the match has no arm for
OtherEvents == [type : {"PaymentFailed", "SpendableOutputs"}]

(***************************************************************************)
(* Collaborator outcomes                                                   *)
(***************************************************************************)
\* Ok values of backend.fee_rate_estimation
Fees == {5}

BackendErrors == {<<"network error">>}

\* Ok values of wallet_manager.create_transaction
Transactions == {"txA", "txB"}

WalletErrors == {<<"insufficient funds">>}

\* Err values of ChannelManager::funding_transaction_generated
APIErrors == {<<"APIMisuseError">>}

\* `fee_rate_estimation(6)`
FeeTarget == 6

\* Amount::from_sat
AmountFromSat(sat) == [sat |-> sat]

\* FeeRate::from_sat_per_vb_unchecked(fee as u64): stored in sat/kwu, 1 sat/vB = 250 sat/kwu
FeeRateFromSatPerVbUnchecked(fee) == [sat_per_kwu |-> fee * 250]

(***************************************************************************)
(* Trace entries and results                                               *)
(***************************************************************************)
\* self.emit(event)
Emit(t, event) == [task |-> t, op |-> "emit", arg |-> event]

Call(t, name, args) == [task |-> t, op |-> name, arg |-> args]

Return(t, name, outcome) == [task |-> t, op |-> "return", of |-> name, arg |-> outcome]

ResOk == [tag |-> "Ok"]

ResErr(e) == [tag |-> "Err", err |-> e]

ResPanic == [tag |-> "Panic"]

Pending == [tag |-> "Pending"]

(***************************************************************************)
(* The event bus: Emitter<Event> and Subscriber<Event> of lampo_common      *)
(***************************************************************************)
\* the domain events emitted so far, in order
Emissions ==
    LET es == SelectSeq(trace, LAMBDA e : e.op = "emit") IN
    [i \in DOMAIN es |-> es[i].arg]

\* Emitter::emit: the event is sent to every receiver that exists now
EmitterEmit(ss, event) ==
    [k \in DOMAIN ss |-> [ss[k] EXCEPT !.received = Append(@, event)]]

\* Subscriber::subscribe: a fresh receiver with nothing in it;
\* since records how many events had been emitted before it existed
SubscriberSubscribe(emittedBefore) == [since |-> emittedBefore, received |-> <<>>]

\* variant: the event is only logged, not forwarded to the emitter
HandlerEmitDropped(ss, event) == ss

\* LampoHandler::emit: log and self.emitter.emit(event)
HandlerEmit(ss, event) == EmitterEmit(ss, event)

\* LampoHandler::events: log and self.subscriber.subscribe()
HandlerEvents(emitted) == SubscriberSubscribe(Len(emitted))

\* every self.emit(..) of a piece of handle(), in order
RECURSIVE DeliverLog(_, _)
DeliverLog(ss, log) ==
    IF log = <<>>
    THEN ss
    ELSE DeliverLog(IF Head(log).op = "emit" THEN HandlerEmit(ss, Head(log).arg) ELSE ss,
                    Tail(log))

\* an arm of the match that runs to completion without suspending
Finished(log, result) == [log |-> log, pc |-> "done", result |-> result]

OkOf(v) == [tag |-> "Ok", value |-> v]

ErrOf(e) == [tag |-> "Err", err |-> e]

\* format!("{:?}", err)
DebugString(err) == <<"{:?}">> \o err

(***************************************************************************)
(* handle(): the arms of the match                                         *)
(***************************************************************************)
\* variant: the inbound channel is accepted
OpenChannelRequestArmAccepts(t, ev) ==
    Finished(<<Call(t, "accept_inbound_channel",
                    <<ev.temporary_channel_id, ev.counterparty_node_id>>)>>, ResOk)

\* OpenChannelRequest arm
OpenChannelRequestArm(t, ev) ==
    Finished(<<>>, ResErr(<<"Request for open a channel received, unfortunatly we do not support this feature yet.">>))

\* variant: a channel already announced as ready is not announced again
ChannelReadyArmOnce(t, ev) ==
    IF \E i \in DOMAIN trace :
           /\ trace[i].op = "emit"
           /\ trace[i].arg.type = "ChannelReady"
           /\ trace[i].arg.channel_id = ev.channel_id
    THEN Finished(<<>>, ResOk)
    ELSE Finished(<<Emit(t, [type |-> "ChannelReady",
                             counterparty_node_id |-> ev.counterparty_node_id,
                             channel_id |-> ev.channel_id,
                             channel_type |-> ev.channel_type])>>, ResOk)

\* ChannelReady arm
ChannelReadyArm(t, ev) ==
    Finished(<<Emit(t, [type |-> "ChannelReady",
                        counterparty_node_id |-> ev.counterparty_node_id,
                        channel_id |-> ev.channel_id,
                        channel_type |-> ev.channel_type])>>, ResOk)

\* variant: the optional identifiers are unwrapped
ChannelClosedArmUnwrap(t, ev) ==
    IF IsSome(ev.counterparty_node_id) /\ IsSome(ev.channel_funding_txo)
    THEN Finished(<<Emit(t, [type |-> "CloseChannelEvent",
                             channel_id |-> DisplayString(ev.channel_id),
                             message |-> DisplayString(ev.reason),
                             counterparty_node_id |-> OptionToString(ev.counterparty_node_id),
                             funding_utxo |-> OptionToString(ev.channel_funding_txo)])>>,
                  ResOk)
    ELSE Finished(<<>>, ResPanic)

\* ChannelClosed arm
ChannelClosedArm(t, ev) ==
    LET node_id == OptionToString(ev.counterparty_node_id)
        txo == OptionToString(ev.channel_funding_txo)
    IN Finished(<<Emit(t, [type |-> "CloseChannelEvent",
                           channel_id |-> DisplayString(ev.channel_id),
                           message |-> DisplayString(ev.reason),
                           counterparty_node_id |-> node_id,
                           funding_utxo |-> txo])>>, ResOk)

\* FundingGenerationReady arm, up to the first await
FundingGenerationReadyArm(t, ev) ==
    [log |-> <<Emit(t, [type |-> "FundingChannelStart",
                        counterparty_node_id |-> ev.counterparty_node_id,
                        temporary_channel_id |-> ev.temporary_channel_id,
                        channel_value_satoshis |-> ev.channel_value_satoshis]),
               Call(t, "fee_rate_estimation", <<FeeTarget>>)>>,
     pc |-> "estimate", result |-> Pending]

\* variant: the estimation error is reported but the funding goes on with a zero fee
AfterFeeRateEstimationIgnoreError(t, ev, outcome) ==
    IF outcome.tag = "Err"
    THEN [log |-> <<Return(t, "fee_rate_estimation", outcome),
                    Emit(t, [type |-> "ChannelEvent", state |-> "error",
                             message |-> <<"Channel Opening Error: ">> \o outcome.err]),
                    Call(t, "create_transaction",
                         <<ev.output_script,
                           AmountFromSat(ev.channel_value_satoshis),
                           FeeRateFromSatPerVbUnchecked(0)>>)>>,
          pc |-> "build", result |-> Pending]
    ELSE [log |-> <<Return(t, "fee_rate_estimation", outcome),
                    Call(t, "create_transaction",
                         <<ev.output_script,
                           AmountFromSat(ev.channel_value_satoshis),
                           FeeRateFromSatPerVbUnchecked(outcome.value)>>)>>,
          pc |-> "build", result |-> Pending]

\* variant: the wallet is handed the confirmation target instead of the estimate
AfterFeeRateEstimationWrongFee(t, ev, outcome) ==
    IF outcome.tag = "Err"
    THEN Finished(<<Return(t, "fee_rate_estimation", outcome),
                    Emit(t, [type |-> "ChannelEvent", state |-> "error",
                             message |-> <<"Channel Opening Error: ">> \o outcome.err])>>,
                  ResErr(outcome.err))
    ELSE [log |-> <<Return(t, "fee_rate_estimation", outcome),
                    Call(t, "create_transaction",
                         <<ev.output_script,
                           AmountFromSat(ev.channel_value_satoshis),
                           FeeRateFromSatPerVbUnchecked(FeeTarget)>>)>>,
          pc |-> "build", result |-> Pending]

\* variant: the estimation error is propagated without the error notice
AfterFeeRateEstimationSilent(t, ev, outcome) ==
    IF outcome.tag = "Err"
    THEN Finished(<<Return(t, "fee_rate_estimation", outcome)>>, ResErr(outcome.err))
    ELSE [log |-> <<Return(t, "fee_rate_estimation", outcome),
                    Call(t, "create_transaction",
                         <<ev.output_script,
                           AmountFromSat(ev.channel_value_satoshis),
                           FeeRateFromSatPerVbUnchecked(outcome.value)>>)>>,
          pc |-> "build", result |-> Pending]

\* FundingGenerationReady arm, from the return of fee_rate_estimation to the second await
AfterFeeRateEstimation(t, ev, outcome) ==
    IF outcome.tag = "Err"
    THEN Finished(<<Return(t, "fee_rate_estimation", outcome),
                    Emit(t, [type |-> "ChannelEvent", state |-> "error",
                             message |-> <<"Channel Opening Error: ">> \o outcome.err])>>,
                  ResErr(outcome.err))
    ELSE [log |-> <<Return(t, "fee_rate_estimation", outcome),
                    Call(t, "create_transaction",
                         <<ev.output_script,
                           AmountFromSat(ev.channel_value_satoshis),
                           FeeRateFromSatPerVbUnchecked(outcome.value)>>)>>,
          pc |-> "build", result |-> Pending]

\* variant: funding_transaction_generated is called before FundingChannelEnd is emitted
AfterCreateTransactionFinalizeFirst(t, ev, outcome, fin) ==
    IF outcome.tag = "Err"
    THEN Finished(<<Return(t, "create_transaction", outcome)>>, ResErr(outcome.err))
    ELSE Finished(<<Return(t, "create_transaction", outcome),
                    Call(t, "funding_transaction_generated",
                         <<ev.temporary_channel_id, ev.counterparty_node_id, outcome.value>>),
                    Return(t, "funding_transaction_generated", fin),
                    Emit(t, [type |-> "FundingChannelEnd",
                             counterparty_node_id |-> ev.counterparty_node_id,
                             temporary_channel_id |-> ev.temporary_channel_id,
                             channel_value_satoshis |-> ev.channel_value_satoshis,
                             funding_transaction |-> outcome.value])>>,
                  IF fin.tag = "Err" THEN ResErr(DebugString(fin.err)) ELSE ResOk)

\* variant: FundingChannelEnd is emitted whatever create_transaction returned
AfterCreateTransactionAlwaysEnd(t, ev, outcome, fin) ==
    IF outcome.tag = "Err"
    THEN Finished(<<Return(t, "create_transaction", outcome),
                    Emit(t, [type |-> "FundingChannelEnd",
                             counterparty_node_id |-> ev.counterparty_node_id,
                             temporary_channel_id |-> ev.temporary_channel_id,
                             channel_value_satoshis |-> ev.channel_value_satoshis,
                             funding_transaction |-> "none"])>>,
                  ResErr(outcome.err))
    ELSE Finished(<<Return(t, "create_transaction", outcome),
                    Emit(t, [type |-> "FundingChannelEnd",
                             counterparty_node_id |-> ev.counterparty_node_id,
                             temporary_channel_id |-> ev.temporary_channel_id,
                             channel_value_satoshis |-> ev.channel_value_satoshis,
                             funding_transaction |-> outcome.value]),
                    Call(t, "funding_transaction_generated",
                         <<ev.temporary_channel_id, ev.counterparty_node_id, outcome.value>>),
                    Return(t, "funding_transaction_generated", fin)>>,
                  IF fin.tag = "Err" THEN ResErr(DebugString(fin.err)) ELSE ResOk)

\* FundingGenerationReady arm, from the return of create_transaction to the end;
\* fin is what funding_transaction_generated returns if it is called
AfterCreateTransaction(t, ev, outcome, fin) ==
    IF outcome.tag = "Err"
    THEN Finished(<<Return(t, "create_transaction", outcome)>>, ResErr(outcome.err))
    ELSE Finished(<<Return(t, "create_transaction", outcome),
                    Emit(t, [type |-> "FundingChannelEnd",
                             counterparty_node_id |-> ev.counterparty_node_id,
                             temporary_channel_id |-> ev.temporary_channel_id,
                             channel_value_satoshis |-> ev.channel_value_satoshis,
                             funding_transaction |-> outcome.value]),
                    Call(t, "funding_transaction_generated",
                         <<ev.temporary_channel_id, ev.counterparty_node_id, outcome.value>>),
                    Return(t, "funding_transaction_generated", fin)>>,
                  IF fin.tag = "Err" THEN ResErr(DebugString(fin.err)) ELSE ResOk)

\* ChannelPending arm
ChannelPendingArm(t, ev) ==
    Finished(<<Emit(t, [type |-> "ChannelPending",
                        counterparty_node_id |-> ev.counterparty_node_id,
                        funding_transaction |-> ev.funding_txo])>>, ResOk)

\* variant: the pending forwards are not flushed
PendingHTLCsForwardableArmNoFlush(t, ev) == Finished(<<>>, ResOk)

\* PendingHTLCsForwardable arm
PendingHTLCsForwardableArm(t, ev) ==
    Finished(<<Call(t, "process_pending_htlc_forwards", <<>>)>>, ResOk)

\* variant: the refund arm yields no preimage
PurposePreimageNoRefund(purpose) ==
    IF purpose.kind = "SpontaneousPayment"
    THEN Some(purpose.preimage)
    ELSE IF purpose.kind = "Bolt12RefundPayment" THEN None
    ELSE purpose.payment_preimage

\* `let preimage = match purpose { ... }`
PurposePreimage(purpose) ==
    IF purpose.kind = "SpontaneousPayment"
    THEN Some(purpose.preimage)
    ELSE purpose.payment_preimage

\* PaymentClaimable arm; Option::unwrap panics on None before claim_funds is entered
PaymentClaimableArm(t, ev) ==
    LET preimage == PurposePreimage(ev.purpose) IN
    IF IsSome(preimage)
    THEN Finished(<<Call(t, "claim_funds", <<preimage[1]>>)>>, ResOk)
    ELSE Finished(<<>>, ResPanic)

\* variant: the extracted preimage is claimed again
PaymentClaimedArmClaims(t, ev) ==
    LET preimage == PurposePreimage(ev.purpose) IN
    IF IsSome(preimage)
    THEN Finished(<<Call(t, "claim_funds", <<preimage[1]>>)>>, ResOk)
    ELSE Finished(<<>>, ResOk)

\* PaymentClaimed arm: the preimage and secret are extracted and dropped
PaymentClaimedArm(t, ev) == Finished(<<>>, ResOk)

\* PaymentSent arm
PaymentSentArm(t, ev) == Finished(<<>>, ResOk)

\* PaymentHop::from(hop.clone())
PaymentHopFrom(hop) == [hop |-> hop]

\* PaymentPathSuccessful arm
PaymentPathSuccessfulArm(t, ev) ==
    LET path == [i \in DOMAIN ev.path |-> PaymentHopFrom(ev.path[i])] IN
    Finished(<<Emit(t, [type |-> "PaymentEvent", state |-> "Success",
                        payment_hash |-> OptionToString(ev.payment_hash),
                        path |-> path])>>, ResOk)

\* variant: the catch-all arm is declared unreachable
CatchAllArmUnreachable(t, ev) == Finished(<<>>, ResPanic)

\* `_ => Err(error::anyhow!("unexpected ldk event: {:?}", event))`
CatchAllArm(t, ev) == Finished(<<>>, ResErr(<<"unexpected ldk event: ", ev.type>>))

\* `match event { ... }`: the part of handle() that runs before it first suspends or returns
HandleArm(t, ev) ==
    CASE ev.type = "OpenChannelRequest" -> OpenChannelRequestArm(t, ev)
      [] ev.type = "ChannelReady" -> ChannelReadyArm(t, ev)
      [] ev.type = "ChannelClosed" -> ChannelClosedArm(t, ev)
      [] ev.type = "FundingGenerationReady" -> FundingGenerationReadyArm(t, ev)
      [] ev.type = "ChannelPending" -> ChannelPendingArm(t, ev)
      [] ev.type = "PendingHTLCsForwardable" -> PendingHTLCsForwardableArm(t, ev)
      [] ev.type = "PaymentClaimable" -> PaymentClaimableArm(t, ev)
      [] ev.type = "PaymentClaimed" -> PaymentClaimedArm(t, ev)
      [] ev.type = "PaymentSent" -> PaymentSentArm(t, ev)
      [] ev.type = "PaymentPathSuccessful" -> PaymentPathSuccessfulArm(t, ev)
      [] OTHER -> CatchAllArm(t, ev)

LdkEvents ==
    OpenChannelRequestEvents \cup ChannelReadyEvents \cup ChannelClosedEvents
    \cup FundingGenerationReadyEvents \cup ChannelPendingEvents
    \cup PendingHTLCsForwardableEvents \cup PaymentClaimableEvents
    \cup PaymentClaimedEvents \cup PaymentSentEvents
    \cup PaymentPathSuccessfulEvents \cup OtherEvents

(***************************************************************************)
(* Actions of the reactor                                                  *)
(***************************************************************************)
\* handle(event) is invoked as task number Len(tasks) + 1 and runs to its first await
Handle(ev) ==
    /\ Len(tasks) < MaxTasks
    /\ LET t == Len(tasks) + 1
           r == HandleArm(t, ev)
       IN /\ tasks' = Append(tasks, [ev |-> ev, pc |-> r.pc, result |-> r.result])
          /\ trace' = trace \o r.log
          /\ subs' = DeliverLog(subs, r.log)
    /\ UNCHANGED <<external_handlers, lastReact, iter, lastAdd>>

\* backend.fee_rate_estimation(6).await completes for task t
FeeRateEstimationReturns(t, outcome) ==
    /\ tasks[t].pc = "estimate"
    /\ LET r == AfterFeeRateEstimation(t, tasks[t].ev, outcome) IN
          /\ tasks' = [tasks EXCEPT ![t].pc = r.pc, ![t].result = r.result]
          /\ trace' = trace \o r.log
          /\ subs' = DeliverLog(subs, r.log)
    /\ UNCHANGED <<external_handlers, lastReact, iter, lastAdd>>

\* wallet_manager.create_transaction(..).await completes for task t
CreateTransactionReturns(t, outcome, fin) ==
    /\ tasks[t].pc = "build"
    /\ LET r == AfterCreateTransaction(t, tasks[t].ev, outcome, fin) IN
          /\ tasks' = [tasks EXCEPT ![t].pc = r.pc, ![t].result = r.result]
          /\ trace' = trace \o r.log
          /\ subs' = DeliverLog(subs, r.log)
    /\ UNCHANGED <<external_handlers, lastReact, iter, lastAdd>>

\* the caller drops the future of handle() while it is suspended at one of
\* the two awaits of the FundingGenerationReady arm: nothing more of it runs
Cancel(t) ==
    /\ tasks[t].pc \in {"estimate", "build"}
    /\ tasks' = [tasks EXCEPT ![t].pc = "cancelled", ![t].result = [tag |-> "Cancelled"]]
    /\ UNCHANGED <<external_handlers, lastReact, trace, iter, lastAdd, subs>>

\* events(): a new receiver is handed out
Events ==
    /\ Len(subs) < MaxSubscribers
    /\ subs' = Append(subs, HandlerEvents(Emissions))
    /\ UNCHANGED <<external_handlers, lastReact, tasks, trace, iter, lastAdd>>

(***************************************************************************)
(* Specifications                                                          *)
(***************************************************************************)
\* LampoHandler::new
Init ==
    /\ external_handlers = <<>>
    /\ lastReact = NoReact
    /\ tasks = <<>>
    /\ trace = <<>>
    /\ iter = Idle
    /\ lastAdd = [tag |-> "None"]
    /\ subs = <<>>

FeeOutcomes == {OkOf(f) : f \in Fees} \cup {ErrOf(e) : e \in BackendErrors}

TxOutcomes == {OkOf(tx) : tx \in Transactions} \cup {ErrOf(e) : e \in WalletErrors}

FinalizeOutcomes == {OkOf(<<>>)} \cup {ErrOf(e) : e \in APIErrors}

NextReact ==
    \/ \E h \in HandlerObjs : AddExternalHandler(h)
    \/ \E req \in Requests : React(req)

NextHandle ==
    \/ \E ev \in LdkEvents : Handle(ev)
    \/ \E t \in DOMAIN tasks, o \in FeeOutcomes : FeeRateEstimationReturns(t, o)
    \/ \E t \in DOMAIN tasks, o \in TxOutcomes, fin \in FinalizeOutcomes :
          CreateTransactionReturns(t, o, fin)

\* registration and dispatch, with react() taken step by step
NextChain ==
    \/ \E h \in HandlerObjs : AddExternalHandler(h)
    \/ \E req \in Requests : ReactBegin(req)
    \/ ReactConsult
    \/ \E h \in HandlerObjs : AddExternalHandlerFromHandler(h)
    \/ \E h \in HandlerObjs, sawBorrow \in BOOLEAN : AddExternalHandlerFromThread(h, sawBorrow)

\* funding transitions only, with cancellation by the caller
NextFunding ==
    \/ \E ev \in FundingGenerationReadyEvents : Handle(ev)
    \/ \E t \in DOMAIN tasks, o \in FeeOutcomes : FeeRateEstimationReturns(t, o)
    \/ \E t \in DOMAIN tasks, o \in TxOutcomes, fin \in FinalizeOutcomes :
          CreateTransactionReturns(t, o, fin)
    \/ \E t \in DOMAIN tasks : Cancel(t)

\* ldk events whose arms emit one domain event or none, for the bus
BusLdkEvents ==
    ChannelReadyEvents \cup ChannelPendingEvents \cup ChannelClosedEvents
    \cup PaymentSentEvents

\* subscriptions and emissions
NextBus ==
    \/ Events
    \/ \E ev \in BusLdkEvents : Handle(ev)

Next == NextReact \/ NextHandle \/ NextChain \/ NextFunding \/ NextBus

Spec == Init /\ [][Next]_vars

\* the command side alone: registration and dispatch
SpecReact == Init /\ [][NextReact]_vars

\* the ldk event side alone
SpecHandle == Init /\ [][NextHandle]_vars

\* funding transitions that the caller may cancel
SpecFunding == Init /\ [][NextFunding]_vars

\* receivers obtained from events() while domain events are emitted
SpecBus == Init /\ [][NextBus]_vars

\* the command side with registration during an active react()
SpecChain == Init /\ [][NextChain]_vars

(***************************************************************************)
(* Properties of react                                                     *)
(***************************************************************************)
\* the positions 1..n in order
UpTo(n) == [k \in 1..n |-> k]

\* what the handler at position i of the chain of the last react() answers to its request
AnswerAt(i) == lastReact.handlers[i][lastReact.req.method]

\* every handler registered before position i declines the request
AllDeclineBefore(i) == \A j \in 1..(i - 1) : AnswerAt(j) = "decline"

\* C1: react returns the response of the first handler, in registration order,
\* that produces a response (every handler registered before it having declined),
\* and the handlers consulted are exactly those up to and including that one.
C1_FirstResponderWins ==
    lastReact.called =>
        \A i \in 1..Len(lastReact.handlers) :
            (AnswerAt(i) = "respond" /\ AllDeclineBefore(i)) =>
                /\ lastReact.result =
                       [tag |-> "Ok",
                        value |-> [from |-> lastReact.handlers[i],
                                   method |-> lastReact.req.method]]
                /\ lastReact.consulted = UpTo(i)

\* the first of two different responding handlers answered and the second was not consulted
C1_Witness ==
    /\ lastReact.called
    /\ Len(lastReact.handlers) = 2
    /\ AnswerAt(1) = "respond"
    /\ AnswerAt(2) = "respond"
    /\ lastReact.handlers[1] # lastReact.handlers[2]
    /\ lastReact.result.tag = "Ok"
    /\ lastReact.result.value.from = lastReact.handlers[1]
    /\ lastReact.consulted = <<1>>

\* C2: when every registered handler declines (also when the chain is empty),
\* react fails with the "method not found" error naming the requested method,
\* having consulted every handler exactly once.
C2_NotFoundNamesMethod ==
    (lastReact.called /\ AllDeclineBefore(Len(lastReact.handlers) + 1)) =>
        /\ lastReact.result.tag = "Err"
        /\ lastReact.result.err = <<"method ", lastReact.req.method, " not found">>
        /\ lastReact.consulted = UpTo(Len(lastReact.handlers))

\* a chain of two declining handlers was asked for "unknown"
C2_Witness ==
    /\ lastReact.called
    /\ Len(lastReact.handlers) = 2
    /\ AllDeclineBefore(3)
    /\ lastReact.req.method = "unknown"
    /\ lastReact.result.tag = "Err"
    /\ lastReact.consulted = <<1, 2>>

\* C3: when a handler fails (those before it having declined), react returns
\* that failure and no handler registered after it is consulted.
C3_HandlerFailureAborts ==
    lastReact.called =>
        \A i \in 1..Len(lastReact.handlers) :
            (AnswerAt(i) = "fail" /\ AllDeclineBefore(i)) =>
                /\ lastReact.result =
                       [tag |-> "Err", err |-> <<"handler failure", lastReact.req.method>>]
                /\ lastReact.consulted = UpTo(i)

\* the first handler failed although the second one would have responded
C3_Witness ==
    /\ lastReact.called
    /\ Len(lastReact.handlers) = 2
    /\ AnswerAt(1) = "fail"
    /\ AnswerAt(2) = "respond"
    /\ lastReact.result.tag = "Err"
    /\ lastReact.consulted = <<1>>

(***************************************************************************)
(* Properties of handle                                                    *)
(***************************************************************************)
\* what task t did, in order
TaskLog(t) == SelectSeq(trace, LAMBDA e : e.task = t)

IsEmitOf(e, type) == e.op = "emit" /\ e.arg.type = type

IsReturnOf(e, name) == e.op = "return" /\ e.of = name

FundingTasks == {t \in DOMAIN tasks : tasks[t].ev.type = "FundingGenerationReady"}

\* the fee estimation of task t has returned a failure
EstimationFailed(t) ==
    \E i \in DOMAIN trace :
        /\ trace[i].task = t
        /\ IsReturnOf(trace[i], "fee_rate_estimation")
        /\ trace[i].arg.tag = "Err"

\* C4: a FundingGenerationReady transition whose fee estimation failed never
\* emits FundingChannelEnd and never calls funding_transaction_generated.
C4_NoEndAfterFailedEstimate ==
    \A t \in FundingTasks :
        EstimationFailed(t) =>
            \A i \in DOMAIN trace :
                trace[i].task = t =>
                    /\ ~IsEmitOf(trace[i], "FundingChannelEnd")
                    /\ trace[i].op # "funding_transaction_generated"

\* a funding transition has returned after its fee estimation failed
C4_Witness ==
    \E t \in FundingTasks :
        /\ EstimationFailed(t)
        /\ tasks[t].pc = "done"
        /\ tasks[t].result.tag = "Err"

\* C5: a FundingGenerationReady transition that returned Ok has emitted exactly
\* one FundingChannelStart and then exactly one FundingChannelEnd, both for the
\* event's temporary channel id, and both before its single call of
\* funding_transaction_generated.
C5_StartThenEndBeforeFinalize ==
    \A t \in FundingTasks :
        tasks[t].result = ResOk =>
            LET log == TaskLog(t)
                emits == SelectSeq(log, LAMBDA e : e.op = "emit")
                fins == {i \in DOMAIN log : log[i].op = "funding_transaction_generated"}
            IN /\ Len(emits) = 2
               /\ emits[1].arg.type = "FundingChannelStart"
               /\ emits[1].arg.temporary_channel_id = tasks[t].ev.temporary_channel_id
               /\ emits[2].arg.type = "FundingChannelEnd"
               /\ emits[2].arg.temporary_channel_id = tasks[t].ev.temporary_channel_id
               /\ Cardinality(fins) = 1
               /\ \A k \in fins : \A i \in DOMAIN log : log[i].op = "emit" => i < k

\* a funding transition has returned Ok
C5_Witness ==
    \E t \in FundingTasks :
        /\ tasks[t].result = ResOk
        /\ \E i \in DOMAIN trace :
               trace[i].task = t /\ trace[i].op = "funding_transaction_generated"

\* the steps task t has taken after emitting FundingChannelStart
FundingSteps(t) == Tail(TaskLog(t))

\* C6: after FundingChannelStart, a funding transition performs, in this order
\* and each only once the previous one returned Ok: fee_rate_estimation(6);
\* create_transaction(event's script, event's value, the estimated fee rate);
\* FundingChannelEnd with the transaction the wallet returned;
\* funding_transaction_generated(event's temporary channel id, event's node id,
\* that same transaction).
C6_FundingStepsInOrder ==
    \A t \in FundingTasks :
        LET s == FundingSteps(t)
            ev == tasks[t].ev
            n == Len(s)
        IN /\ n >= 1
           /\ s[1].op = "fee_rate_estimation" /\ s[1].arg = <<6>>
           /\ n >= 2 => IsReturnOf(s[2], "fee_rate_estimation")
           /\ (n >= 3 /\ s[2].arg.tag = "Ok") =>
                 /\ s[3].op = "create_transaction"
                 /\ s[3].arg = <<ev.output_script,
                                 [sat |-> ev.channel_value_satoshis],
                                 [sat_per_kwu |-> 250 * s[2].arg.value]>>
           /\ (n >= 3 /\ s[2].arg.tag = "Err") =>
                 /\ n = 3
                 /\ s[3].op = "emit"
           /\ n >= 4 => IsReturnOf(s[4], "create_transaction")
           /\ (n >= 5 /\ s[4].arg.tag = "Ok") =>
                 /\ n = 7
                 /\ IsEmitOf(s[5], "FundingChannelEnd")
                 /\ s[5].arg.funding_transaction = s[4].arg.value
                 /\ s[6].op = "funding_transaction_generated"
                 /\ s[6].arg = <<ev.temporary_channel_id, ev.counterparty_node_id,
                                 s[4].arg.value>>
                 /\ IsReturnOf(s[7], "funding_transaction_generated")
           /\ (n >= 4 /\ s[4].arg.tag = "Err") => n = 4

\* scenario B: value 100000, script S, estimate 5 sat/vB (1250 sat/kwu), all steps done
C6_Witness ==
    \E t \in FundingTasks :
        LET s == FundingSteps(t) IN
        /\ tasks[t].result = ResOk
        /\ Len(s) = 7
        /\ s[2].arg = OkOf(5)
        /\ s[3].arg = <<"S", [sat |-> 100000], [sat_per_kwu |-> 1250]>>
        /\ s[6].arg[3] = s[4].arg.value

\* C7: when the fee estimation of a funding transition fails, handle returns
\* that failure, exactly one ChannelEvent with state "error" has been emitted by
\* then, and create_transaction is never called.
C7_EstimateFailureReported ==
    \A t \in FundingTasks :
        \A i \in DOMAIN trace :
            (/\ trace[i].task = t
             /\ IsReturnOf(trace[i], "fee_rate_estimation")
             /\ trace[i].arg.tag = "Err") =>
                /\ tasks[t].pc = "done"
                /\ tasks[t].result = [tag |-> "Err", err |-> trace[i].arg.err]
                /\ Cardinality({j \in DOMAIN trace :
                                   /\ trace[j].task = t
                                   /\ IsEmitOf(trace[j], "ChannelEvent")
                                   /\ trace[j].arg.state = "error"}) = 1
                /\ \A j \in DOMAIN trace :
                       trace[j].task = t => trace[j].op # "create_transaction"

\* scenario C: the estimate failed with a network error and the notice was emitted
C7_Witness ==
    \E t \in FundingTasks :
        /\ tasks[t].result = [tag |-> "Err", err |-> <<"network error">>]
        /\ \E j \in DOMAIN trace :
               /\ trace[j].task = t
               /\ IsEmitOf(trace[j], "ChannelEvent")
               /\ trace[j].arg.message = <<"Channel Opening Error: ", "network error">>

ClaimableTasks == {t \in DOMAIN tasks : tasks[t].ev.type = "PaymentClaimable"}

\* the preimage a payment purpose carries, as an Option
CarriedPreimage(purpose) ==
    CASE purpose.kind = "SpontaneousPayment" -> <<purpose.preimage>>
      [] purpose.kind \in {"Bolt11InvoicePayment", "Bolt12OfferPayment",
                           "Bolt12RefundPayment"} -> purpose.payment_preimage

\* the positions of the trace where claim_funds is called with preimage p
ClaimsOf(p) == {i \in DOMAIN trace : trace[i].op = "claim_funds" /\ trace[i].arg = <<p>>}

\* C8 (as claimed): PaymentClaimable with an invoice, offer or refund purpose
\* and no preimage does not call claim_funds and makes handle return an error.
C8_MissingPreimageReturnsError ==
    \A t \in ClaimableTasks :
        (/\ tasks[t].ev.purpose.kind # "SpontaneousPayment"
         /\ CarriedPreimage(tasks[t].ev.purpose) = <<>>) =>
            /\ \A i \in DOMAIN trace : trace[i].task = t => trace[i].op # "claim_funds"
            /\ tasks[t].result.tag = "Err"

\* C9: PaymentClaimable whose purpose carries a preimage makes handle call
\* claim_funds exactly once, with that preimage, emit nothing and return Ok.
C9_ClaimWithCarriedPreimage ==
    \A t \in ClaimableTasks :
        LET carried == CarriedPreimage(tasks[t].ev.purpose) IN
        carried # <<>> =>
            /\ TaskLog(t) = <<[task |-> t, op |-> "claim_funds", arg |-> carried]>>
            /\ tasks[t].result = ResOk

\* a refund payment carrying a preimage and a spontaneous payment were both claimed
C9_Witness ==
    \E t, u \in ClaimableTasks :
        /\ tasks[t].ev.purpose.kind = "Bolt12RefundPayment"
        /\ tasks[t].ev.purpose.payment_preimage = <<"p2">>
        /\ tasks[u].ev.purpose.kind = "SpontaneousPayment"
        /\ ClaimsOf("p2") # {}
        /\ ClaimsOf(tasks[u].ev.purpose.preimage) # {}
        /\ tasks[t].result = ResOk
        /\ tasks[u].result = ResOk

\* the handled PaymentClaimable events that carry preimage p
ClaimableCarrying(p) ==
    {t \in ClaimableTasks : CarriedPreimage(tasks[t].ev.purpose) = <<p>>}

\* C10 (as claimed): whatever events were handled, a preimage is passed to
\* claim_funds at most once, and exactly once when a PaymentClaimable carried it.
C10_PreimageClaimedOnce ==
    \A p \in Preimages :
        /\ Cardinality(ClaimsOf(p)) <= 1
        /\ ClaimableCarrying(p) # {} => Cardinality(ClaimsOf(p)) = 1

\* C10 (amended): a preimage is passed to claim_funds once per handled
\* PaymentClaimable event that carries it, by the task handling that event,
\* and by no other event (in particular not by PaymentClaimed).
C10_OneClaimPerClaimableDelivery ==
    \A p \in Preimages :
        /\ Cardinality(ClaimsOf(p)) = Cardinality(ClaimableCarrying(p))
        /\ \A t \in ClaimableCarrying(p) :
               Cardinality({i \in ClaimsOf(p) : trace[i].task = t}) = 1

\* PaymentClaimable and then PaymentClaimed were handled for the same preimage:
\* only the first one claimed
C10_Witness ==
    \E t, u \in DOMAIN tasks :
        /\ t < u
        /\ tasks[t].ev.type = "PaymentClaimable"
        /\ tasks[u].ev.type = "PaymentClaimed"
        /\ CarriedPreimage(tasks[t].ev.purpose) = <<"p1">>
        /\ CarriedPreimage(tasks[u].ev.purpose) = <<"p1">>
        /\ Cardinality(ClaimsOf("p1")) = 1

\* task t is suspended in fee_rate_estimation or create_transaction
InFlight(t) == tasks[t].pc \in {"estimate", "build"}

\* the positions of the trace where funding_transaction_generated is called for id
FinalizeCallsFor(id) ==
    {i \in DOMAIN trace :
        trace[i].op = "funding_transaction_generated" /\ trace[i].arg[1] = id}

\* C11 (as claimed): two FundingGenerationReady transitions for the same
\* temporary channel id are never in flight together, and
\* funding_transaction_generated is not called twice for one id.
C11_OneFundingInFlightPerChannel ==
    /\ \A t, u \in FundingTasks :
           (/\ t # u
            /\ tasks[t].ev.temporary_channel_id = tasks[u].ev.temporary_channel_id) =>
               ~(InFlight(t) /\ InFlight(u))
    /\ \A id \in TempChannelIds : Cardinality(FinalizeCallsFor(id)) <= 1

\* C12 (as claimed): add_external_handler called while react() iterates never
\* panics or fails and does not abort that react(), which consults the
\* handlers in registration order.
C12_RegistrationDuringReactIsSafe ==
    /\ lastAdd.tag # "Panic"
    /\ lastReact.result.tag # "Panic"
    /\ lastReact.consulted = UpTo(Len(lastReact.consulted))

\* C13 (as claimed): a FundingGenerationReady transition cancelled while
\* suspended in fee estimation or transaction construction has emitted no
\* domain event.
C13_CancelledFundingEmittedNothing ==
    \A t \in FundingTasks :
        tasks[t].pc = "cancelled" =>
            \A i \in DOMAIN trace : trace[i].task = t => trace[i].op # "emit"

\* task t has emitted FundingChannelEnd
EndEmitted(t) ==
    \E i \in DOMAIN trace : trace[i].task = t /\ IsEmitOf(trace[i], "FundingChannelEnd")

\* the call named name made by task t has returned a failure
StepFailed(t, name) ==
    \E i \in DOMAIN trace :
        trace[i].task = t /\ IsReturnOf(trace[i], name) /\ trace[i].arg.tag = "Err"

\* C14 (as claimed): a FundingGenerationReady transition that returned a
\* failure, whichever step failed, has not emitted FundingChannelEnd.
C14_NoEndOnAnyFailure ==
    \A t \in FundingTasks : tasks[t].result.tag = "Err" => ~EndEmitted(t)

\* C14 (amended): a FundingGenerationReady transition that returned a failure
\* has emitted FundingChannelEnd exactly when the failing step was
\* funding_transaction_generated; after a failed fee estimation or a failed
\* transaction construction no FundingChannelEnd has been emitted.
C14_EndOnlyWhenFinalizeFailed ==
    \A t \in FundingTasks :
        tasks[t].result.tag = "Err" =>
            /\ EndEmitted(t) <=> StepFailed(t, "funding_transaction_generated")
            /\ StepFailed(t, "create_transaction") => ~EndEmitted(t)
            /\ StepFailed(t, "fee_rate_estimation") => ~EndEmitted(t)

\* one transition failed in transaction construction without FundingChannelEnd,
\* another failed in finalization after FundingChannelEnd
C14_Witness ==
    \E t, u \in FundingTasks :
        /\ tasks[t].result.tag = "Err"
        /\ StepFailed(t, "create_transaction")
        /\ ~EndEmitted(t)
        /\ tasks[u].result.tag = "Err"
        /\ StepFailed(u, "funding_transaction_generated")
        /\ EndEmitted(u)

\* C15: a receiver obtained from events() holds exactly the domain events
\* emitted after it was obtained, each once and in emission order: nothing
\* emitted earlier, and nothing missing whatever the other receivers hold.
C15_ReceiversSeeExactlyLaterEmissions ==
    \A k \in DOMAIN subs :
        subs[k].received = SubSeq(Emissions, subs[k].since + 1, Len(Emissions))

\* two events were emitted; the receiver obtained before both holds both, the
\* one obtained between them holds only the second
C15_Witness ==
    /\ Len(Emissions) = 2
    /\ \E j, k \in DOMAIN subs :
           /\ subs[j].since = 0
           /\ subs[j].received = Emissions
           /\ subs[k].since = 1
           /\ subs[k].received = <<Emissions[2]>>

\* the tasks handling an event of the given type
TasksOf(type) == {t \in DOMAIN tasks : tasks[t].ev.type = type}

\* the domain events task t has emitted, in order
Emitted(t) ==
    LET es == SelectSeq(TaskLog(t), LAMBDA e : e.op = "emit") IN
    [i \in DOMAIN es |-> es[i].arg]

\* C16: an ldk event that the match has no arm for makes handle return the
\* "unexpected ldk event" error naming it, without panic, without emitting
\* and without calling a collaborator.
C16_UnmodelledEventRejected ==
    \A t \in DOMAIN tasks :
        tasks[t].ev.type \in {"PaymentFailed", "SpendableOutputs"} =>
            /\ tasks[t].pc = "done"
            /\ tasks[t].result =
                   [tag |-> "Err", err |-> <<"unexpected ldk event: ", tasks[t].ev.type>>]
            /\ TaskLog(t) = <<>>

\* an unmodelled event was rejected and the next event was handled normally
C16_Witness ==
    \E t, u \in DOMAIN tasks :
        /\ t < u
        /\ tasks[t].ev.type = "SpendableOutputs"
        /\ tasks[t].result.tag = "Err"
        /\ tasks[u].ev.type = "ChannelReady"
        /\ tasks[u].result = ResOk
        /\ Len(Emitted(u)) = 1

\* C17: OpenChannelRequest makes handle return the "we do not support this
\* feature" failure, emit nothing and call no collaborator.
C17_InboundOpenUnsupported ==
    \A t \in TasksOf("OpenChannelRequest") :
        /\ tasks[t].pc = "done"
        /\ tasks[t].result.tag = "Err"
        /\ tasks[t].result.err =
               <<"Request for open a channel received, unfortunatly we do not support this feature yet.">>
        /\ TaskLog(t) = <<>>

\* an OpenChannelRequest was handled and refused
C17_Witness ==
    \E t \in TasksOf("OpenChannelRequest") :
        /\ tasks[t].result.tag = "Err"
        /\ trace = <<>>

\* the one trace entry of a task that only emits event
OnlyEmits(t, event) ==
    /\ TaskLog(t) = <<[task |-> t, op |-> "emit", arg |-> event]>>
    /\ tasks[t].result = ResOk

\* an Option with its content turned into a string
Stringified(o) == IF o = <<>> THEN <<>> ELSE << <<"str", o[1]>> >>

\* C18: ChannelReady, ChannelPending, ChannelClosed and PaymentPathSuccessful
\* each make handle return Ok after emitting exactly one domain event of the
\* matching kind (ChannelReady, ChannelPending, CloseChannelEvent,
\* PaymentEvent with state Success) carrying the event's identifiers; an absent
\* counterparty node id or funding outpoint of ChannelClosed is emitted as absent.
C18_LifecycleEventsEmitOnce ==
    /\ \A t \in TasksOf("ChannelReady") :
           OnlyEmits(t, [type |-> "ChannelReady",
                         counterparty_node_id |-> tasks[t].ev.counterparty_node_id,
                         channel_id |-> tasks[t].ev.channel_id,
                         channel_type |-> tasks[t].ev.channel_type])
    /\ \A t \in TasksOf("ChannelPending") :
           OnlyEmits(t, [type |-> "ChannelPending",
                         counterparty_node_id |-> tasks[t].ev.counterparty_node_id,
                         funding_transaction |-> tasks[t].ev.funding_txo])
    /\ \A t \in TasksOf("ChannelClosed") :
           OnlyEmits(t, [type |-> "CloseChannelEvent",
                         channel_id |-> <<"str", tasks[t].ev.channel_id>>,
                         message |-> <<"str", tasks[t].ev.reason>>,
                         counterparty_node_id |-> Stringified(tasks[t].ev.counterparty_node_id),
                         funding_utxo |-> Stringified(tasks[t].ev.channel_funding_txo)])
    /\ \A t \in TasksOf("PaymentPathSuccessful") :
           OnlyEmits(t, [type |-> "PaymentEvent", state |-> "Success",
                         payment_hash |-> Stringified(tasks[t].ev.payment_hash),
                         path |-> [i \in DOMAIN tasks[t].ev.path |->
                                      [hop |-> tasks[t].ev.path[i]]]])

\* a ChannelClosed without node id and without funding outpoint was handled,
\* and so was a PaymentPathSuccessful
C18_Witness ==
    \E t \in TasksOf("ChannelClosed"), u \in TasksOf("PaymentPathSuccessful") :
        /\ tasks[t].ev.counterparty_node_id = <<>>
        /\ tasks[t].ev.channel_funding_txo = <<>>
        /\ tasks[t].result = ResOk
        /\ Emitted(t)[1].counterparty_node_id = <<>>
        /\ Emitted(t)[1].funding_utxo = <<>>
        /\ Len(Emitted(u)) = 1

\* C19: PendingHTLCsForwardable makes handle call process_pending_htlc_forwards
\* once and emit nothing; PaymentClaimed and PaymentSent emit nothing and call
\* no collaborator; all three return Ok.
C19_MaintenanceEventsAreQuiet ==
    /\ \A t \in TasksOf("PendingHTLCsForwardable") :
           /\ TaskLog(t) = <<[task |-> t, op |-> "process_pending_htlc_forwards",
                              arg |-> <<>>]>>
           /\ tasks[t].result = ResOk
    /\ \A t \in TasksOf("PaymentClaimed") \cup TasksOf("PaymentSent") :
           /\ TaskLog(t) = <<>>
           /\ tasks[t].result = ResOk

\* a PendingHTLCsForwardable and a PaymentClaimed carrying a preimage were handled
C19_Witness ==
    \E t \in TasksOf("PendingHTLCsForwardable"), u \in TasksOf("PaymentClaimed") :
        /\ Len(TaskLog(t)) = 1
        /\ CarriedPreimage(tasks[u].ev.purpose) # <<>>
        /\ tasks[t].result = ResOk
        /\ tasks[u].result = ResOk

\* C20: when an event other than FundingGenerationReady is handled twice, the
\* second handling returns what the first returned and emits what the first
\* emitted.
C20_ReplayGivesSameResultAndEmission ==
    \A t, u \in DOMAIN tasks :
        (/\ t < u
         /\ tasks[t].ev = tasks[u].ev
         /\ tasks[t].ev.type # "FundingGenerationReady") =>
            /\ tasks[t].pc = "done"
            /\ tasks[u].pc = "done"
            /\ tasks[u].result = tasks[t].result
            /\ Emitted(u) = Emitted(t)

\* the same ChannelReady event was handled twice and emitted twice
C20_Witness ==
    \E t, u \in TasksOf("ChannelReady") :
        /\ t < u
        /\ tasks[t].ev = tasks[u].ev
        /\ Len(Emitted(t)) = 1
        /\ Emitted(u) = Emitted(t)
        /\ Len(Emissions) = 2

====
